---- MODULE Spec2Model ----
(***************************************************************************)
(* A model of src/main.py: compare_excels walks the sheets common to two   *)
(* workbooks in sorted order, normalises the two tables of each sheet,     *)
(* resolves the key columns, and writes one section per sheet that differs *)
(* (DataFrame.compare for same-shape tables, an outer merge otherwise).     *)
(*                                                                         *)
(* Sheet names and configuration keys are sequences of characters, so that *)
(* str.lower, str.startswith and sorted are computed.  Column names are    *)
(* strings.  A DataFrame is a record                                       *)
(*   columns : the column labels, in order                                 *)
(*   names   : the names of the index levels (<<>> for the RangeIndex)     *)
(*   index   : one label (a tuple) per row                                 *)
(*   data    : one tuple of cells per row, aligned with columns            *)
(***************************************************************************)
EXTENDS Integers, Sequences, FiniteSets, TLC

VARIABLES xls1, xls2, doc_prefix, index_map,
          pc, common, only1, only2, it, sheet,
          df1, df2, index_col, engine, diff, merged,
          writer, closed, out

vars == <<xls1, xls2, doc_prefix, index_map, pc, common, only1, only2, it,
          sheet, df1, df2, index_col, engine, diff, merged, writer, closed, out>>

-----------------------------------------------------------------------------
(* Bounds of the model *)

MaxRows == 2

MaxEntries == 2

-----------------------------------------------------------------------------
(* Cells and labels *)

\* a missing cell, as read_excel returns it
NaN == -1

\* the canonical empty value fillna("") puts in its place
Empty == 0

name1 == "v1"

name2 == "v2"

-----------------------------------------------------------------------------
(* Strings as sequences of characters *)

Ord(c) ==
  CASE c = "A" -> 65 [] c = "D" -> 68 [] c = "a" -> 97 [] c = "d" -> 100

LowerChar(c) ==
  CASE c = "A" -> "a" [] c = "D" -> "d" [] OTHER -> c

Lower(s) == [j \in 1..Len(s) |-> LowerChar(s[j])]

StartsWith(s, p) == Len(p) <= Len(s) /\ SubSeq(s, 1, Len(p)) = p

\* Python's order on str: by code point, a proper prefix first
RECURSIVE StrLess(_, _)
StrLess(s, t) ==
  IF s = <<>> THEN t # <<>>
  ELSE IF t = <<>> THEN FALSE
  ELSE IF Head(s) = Head(t) THEN StrLess(Tail(s), Tail(t))
  ELSE Ord(Head(s)) < Ord(Head(t))

\* the same in descending order
RECURSIVE sortedDesc(_)
sortedDesc(S) ==
  IF S = {} THEN <<>>
  ELSE LET m == CHOOSE x \in S : \A y \in S : x = y \/ StrLess(y, x)
       IN  <<m>> \o sortedDesc(S \ {m})

RECURSIVE sorted(_)
sorted(S) ==
  IF S = {} THEN <<>>
  ELSE LET m == CHOOSE x \in S : \A y \in S : x = y \/ StrLess(x, y)
       IN  <<m>> \o sorted(S \ {m})

\* the order of the column names that occur, as Python orders them
ColRank(c) ==
  CASE c = "Unnamed: 0" -> 1 [] c = "id" -> 2 [] c = "index" -> 3 [] c = "q" -> 4

RECURSIVE sortedCols(_)
sortedCols(S) ==
  IF S = {} THEN <<>>
  ELSE LET m == CHOOSE x \in S : \A y \in S : ColRank(x) <= ColRank(y)
       IN  <<m>> \o sortedCols(S \ {m})

Range(s) == {s[j] : j \in 1..Len(s)}

Pos(s, x) == CHOOSE j \in 1..Len(s) : s[j] = x

\* the positions of 1..n that are in S, ascending
Kept(n, S) == SelectSeq([j \in 1..n |-> j], LAMBDA j : j \in S)

RECURSIVE Concat(_)
Concat(ss) == IF ss = <<>> THEN <<>> ELSE Head(ss) \o Concat(Tail(ss))

-----------------------------------------------------------------------------
(* The key configuration: a dict is a sequence of <<key, value>> pairs with *)
(* distinct keys, in insertion order.                                       *)

None == [kind |-> "none", cols |-> <<>>]

Str(c) == [kind |-> "str", cols |-> <<c>>]

List(cs) == [kind |-> "list", cols |-> cs]

Keys(d) == {d[j][1] : j \in 1..Len(d)}

\* dict.get(k): the value under k, or None
Get(d, k) ==
  IF k \in Keys(d) THEN d[CHOOSE j \in 1..Len(d) : d[j][1] = k][2] ELSE None

\* d[k] = v
SetItem(d, k, v) ==
  IF k \in Keys(d)
  THEN [j \in 1..Len(d) |-> IF d[j][1] = k THEN <<k, v>> ELSE d[j]]
  ELSE Append(d, <<k, v>>)

RECURSIVE lowered(_)
lowered(data) ==
  IF data = <<>> THEN <<>>
  ELSE LET n == Len(data)
       IN  SetItem(lowered(SubSeq(data, 1, n - 1)), Lower(data[n][1]), data[n][2])

load_index_map(data) == [_raw |-> data, _lower |-> lowered(data)]

-----------------------------------------------------------------------------
(* DataFrames *)

RangeIndex(n) == [j \in 1..n |-> <<j - 1>>]

NoFrame == [columns |-> <<>>, names |-> <<>>, index |-> <<>>, data |-> <<>>]

NoMerge == [columns |-> <<>>, rows |-> <<>>]

\* pd.read_excel: the sheet's table under the default RangeIndex
read_excel(xls, s) ==
  [columns |-> xls[s].columns, names |-> <<>>,
   index |-> RangeIndex(Len(xls[s].data)), data |-> xls[s].data]

\* DataFrame.empty: no rows or no columns
IsEmpty(df) == df.index = <<>> \/ df.columns = <<>>

\* the regular expression ^Unnamed on the column names that occur
IsUnnamed(c) == c = "Unnamed: 0"

\* df.loc[:, cols at the positions ps]
TakeCols(df, ps) ==
  [df EXCEPT !.columns = [j \in 1..Len(ps) |-> df.columns[ps[j]]],
             !.data = [r \in 1..Len(df.data) |->
                         [j \in 1..Len(ps) |-> df.data[r][ps[j]]]]]

_drop_unnamed(df) ==
  IF IsEmpty(df) THEN df
  ELSE TakeCols(df, Kept(Len(df.columns),
                         {j \in 1..Len(df.columns) : ~IsUnnamed(df.columns[j])}))

set_index(df, keys) ==
  LET rest == TakeCols(df, Kept(Len(df.columns),
                                {j \in 1..Len(df.columns) :
                                   df.columns[j] \notin Range(keys)}))
  IN  [rest EXCEPT !.names = keys,
                   !.index = [r \in 1..Len(df.data) |->
                                [k \in 1..Len(keys) |->
                                   df.data[r][Pos(df.columns, keys[k])]]]]

fillna(df) ==
  [df EXCEPT !.data = [r \in 1..Len(df.data) |->
                         [j \in 1..Len(df.columns) |->
                            IF df.data[r][j] = NaN THEN Empty ELSE df.data[r][j]]]]

\* reset_index(): the index levels become the leading columns
reset_index(df) ==
  [columns |-> (IF df.names = <<>> THEN <<"index">> ELSE df.names) \o df.columns,
   names |-> <<>>,
   index |-> RangeIndex(Len(df.index)),
   data |-> [r \in 1..Len(df.index) |-> df.index[r] \o df.data[r]]]


\* the same labels in any order
EqualsAsSets(a, b) == Range(a) = Range(b)

\* Index.equals: the same labels in the same order
Equals(a, b) == a = b

\* line 111: the two tables have the same shape
SameShape(a, b) == Equals(a.columns, b.columns) /\ Equals(a.index, b.index)

-----------------------------------------------------------------------------
(* The Cell Diff Engine: DataFrame.compare(keep_shape=False, align_axis=1) *)

\* an empty cell taken for a missing one, which equals nothing
DiffersStrict(a, b, r, j) == a.data[r][j] # b.data[r][j] \/ a.data[r][j] = Empty

\* the mask of compare: the cells that are not equal
Differs(a, b, r, j) == a.data[r][j] # b.data[r][j]

\* the rows rs and the columns cs of the two tables side by side: a pair of
\* values where they differ, a pair of gaps where they do not
diff_frame(a, b, rs, cs) ==
  [columns |-> Concat([k \in 1..Len(cs) |->
                         << <<a.columns[cs[k]], name1>>,
                            <<a.columns[cs[k]], name2>> >>]),
   names |-> a.names,
   index |-> [k \in 1..Len(rs) |-> a.index[rs[k]]],
   data |-> [k \in 1..Len(rs) |->
               Concat([m \in 1..Len(cs) |->
                         IF Differs(a, b, rs[k], cs[m])
                         THEN <<a.data[rs[k]][cs[m]], b.data[rs[k]][cs[m]]>>
                         ELSE <<NaN, NaN>>])]]

\* keep_shape=True: every row and every column
compareKeepShape(a, b) ==
  diff_frame(a, b, [r \in 1..Len(a.index) |-> r], [j \in 1..Len(a.columns) |-> j])

compare(a, b) ==
  diff_frame(a, b,
             Kept(Len(a.index),
                  {r \in 1..Len(a.index) :
                     \E j \in 1..Len(a.columns) : Differs(a, b, r, j)}),
             Kept(Len(a.columns),
                  {j \in 1..Len(a.columns) :
                     \E r \in 1..Len(a.index) : Differs(a, b, r, j)}))

\* line 118: '_'.join of the non-empty parts of a column label
flatten(c) == SelectSeq(c, LAMBDA x : x # "")

\* lines 116-118: reset_index() under two-level columns, then flattened
flat_diff(d) ==
  LET lead == IF d.names = <<>> THEN <<"index">> ELSE d.names
  IN  [columns |-> [j \in 1..Len(lead) |-> flatten(<<lead[j], "">>)]
                     \o [j \in 1..Len(d.columns) |-> flatten(d.columns[j])],
       rows |-> [r \in 1..Len(d.index) |-> d.index[r] \o d.data[r]]]

-----------------------------------------------------------------------------
(* The Row Alignment Engine: pd.merge(how="outer", indicator=True)         *)
(* The rows of the result are the left rows in order, each with its        *)
(* matches, then the unmatched right rows in order; pandas sorts the rows  *)
(* of an outer merge by key, an order no property below reads.             *)

KeyAt(df, r, on) == [k \in 1..Len(on) |-> df.data[r][Pos(df.columns, on[k])]]

merge(l, r, on) ==
  LET rrest == Kept(Len(r.columns),
                    {j \in 1..Len(r.columns) : r.columns[j] \notin Range(on)})
      overlap == (Range(l.columns) \cap Range(r.columns)) \ Range(on)
      lab(c, sfx) == IF c \in overlap THEN <<c, sfx>> ELSE <<c>>
      rcells(j) == [k \in 1..Len(rrest) |-> r.data[j][rrest[k]]]
      matches(i) == Kept(Len(r.data),
                         {j \in 1..Len(r.data) : KeyAt(r, j, on) = KeyAt(l, i, on)})
      leftRows(i) ==
        IF matches(i) = <<>>
        THEN << [data |-> l.data[i] \o [k \in 1..Len(rrest) |-> NaN],
                 _merge |-> "left_only"] >>
        ELSE [m \in 1..Len(matches(i)) |->
                [data |-> l.data[i] \o rcells(matches(i)[m]), _merge |-> "both"]]
      rightOnly == Kept(Len(r.data),
                        {j \in 1..Len(r.data) :
                           \A i \in 1..Len(l.data) : KeyAt(l, i, on) # KeyAt(r, j, on)})
      rightRow(j) ==
        [data |-> [c \in 1..Len(l.columns) |->
                     IF l.columns[c] \in Range(on)
                     THEN r.data[j][Pos(r.columns, l.columns[c])]
                     ELSE NaN] \o rcells(j),
         _merge |-> "right_only"]
  IN  [columns |-> [j \in 1..Len(l.columns) |->
                      IF l.columns[j] \in Range(on) THEN <<l.columns[j]>>
                      ELSE lab(l.columns[j], "_x")]
                     \o [k \in 1..Len(rrest) |-> lab(r.columns[rrest[k]], "_y")],
       rows |-> Concat([i \in 1..Len(l.data) |-> leftRows(i)])
                  \o [k \in 1..Len(rightOnly) |-> rightRow(rightOnly[k])]]

\* line 134: the rows that are not in both tables
unmatched(m) == [m EXCEPT !.rows = SelectSeq(m.rows, LAMBDA x : x._merge # "both")]

\* the two labels exchanged
labelledSwapped(m) ==
  [columns |-> Append(m.columns, <<"Different">>),
   rows |-> [k \in 1..Len(m.rows) |->
               [data |-> m.rows[k].data,
                Different |-> IF m.rows[k]._merge = "left_only"
                              THEN <<name2, "only">> ELSE <<name1, "only">>]]]

\* lines 138-142: the label replaces the indicator
labelled(m) ==
  [columns |-> Append(m.columns, <<"Different">>),
   rows |-> [k \in 1..Len(m.rows) |->
               [data |-> m.rows[k].data,
                Different |-> IF m.rows[k]._merge = "left_only"
                              THEN <<name1, "only">> ELSE <<name2, "only">>]]]

\* `if index_col`: None, "" and [] are false
Truthy(ic) == ic.kind # "none" /\ ic.cols # <<>>

\* line 127
on_keys(ic, l, r) ==
  IF Truthy(ic) THEN ic.cols ELSE sortedCols(Range(l.columns) \cap Range(r.columns))

-----------------------------------------------------------------------------
(* The Key Resolver, lines 82-84 *)

\* the lower-case map asked first
KeyResolverLowerFirst(im, s) ==
  LET v == Get(im._lower, Lower(s))
  IN  IF v = None THEN Get(im._raw, s) ELSE v

KeyResolver(im, s) ==
  LET v == Get(im._raw, s)
  IN  IF v = None THEN Get(im._lower, Lower(s)) ELSE v

\* lines 88-97
missing_cols(ic, a, b) ==
  SelectSeq(ic.cols, LAMBDA c : c \notin Range(a.columns) \/ c \notin Range(b.columns))

-----------------------------------------------------------------------------
(* compare_excels *)

Say(msg, s, arg) == [msg |-> msg, sheet |-> s, arg |-> arg]

\* no sheet left out
filter_sheetsAll(xls) == DOMAIN xls

filter_sheets(xls) ==
  {s \in DOMAIN xls : ~(doc_prefix # <<>> /\ StartsWith(s, doc_prefix))}

SameSuffix == <<"_", "s", "a", "m", "e">>

DiffSuffix == <<"_", "d", "i", "f", "f">>

\* lines 47-68: the sheets to compare, and the report opened
Reconcile ==
  /\ pc = "start"
  /\ LET s1 == filter_sheets(xls1)
         s2 == filter_sheets(xls2)
     IN  /\ common' = sorted(s1 \cap s2)
         /\ only1' = sorted(s1 \ s2)
         /\ only2' = sorted(s2 \ s1)
         /\ out' = (IF s1 \ s2 # {} THEN <<Say("Sheets only in file1", <<>>, <<>>)>> ELSE <<>>)
                   \o (IF s2 \ s1 # {} THEN <<Say("Sheets only in file2", <<>>, <<>>)>> ELSE <<>>)
  /\ it' = 1
  /\ pc' = "loop"
  /\ UNCHANGED <<xls1, xls2, doc_prefix, index_map, sheet, df1, df2, index_col,
                 engine, diff, merged, writer, closed>>

\* lines 69-78: the next sheet is read from both workbooks
ReadSheet ==
  /\ pc = "loop"
  /\ it <= Len(common)
  /\ sheet' = common[it]
  /\ index_col' = None
  /\ engine' = "none"
  /\ diff' = NoFrame
  /\ merged' = NoMerge
  /\ \/ /\ df1' = _drop_unnamed(read_excel(xls1, common[it]))
        /\ df2' = _drop_unnamed(read_excel(xls2, common[it]))
        /\ out' = Append(out, Say("Comparing", common[it], <<>>))
        /\ pc' = "resolve"
        /\ it' = it
     \/ \* read_excel raises: caught at line 74
        /\ df1' = NoFrame
        /\ df2' = NoFrame
        /\ out' = out \o <<Say("Comparing", common[it], <<>>),
                           Say("read error", common[it], <<>>)>>
        /\ pc' = "loop"
        /\ it' = it + 1
  /\ UNCHANGED <<xls1, xls2, doc_prefix, index_map, common, only1, only2,
                 writer, closed>>

\* lines 80-108: the key columns become the index, the empties are normalised
ResolveKey ==
  /\ pc = "resolve"
  /\ LET ic == KeyResolver(index_map, sheet)
     IN  /\ index_col' = ic
         /\ \/ /\ Truthy(ic)
               /\ missing_cols(ic, df1, df2) # <<>>
               /\ out' = Append(out, Say("skip (missing index cols)", sheet,
                                         missing_cols(ic, df1, df2)))
               /\ pc' = "loop"
               /\ it' = it + 1
               /\ UNCHANGED <<df1, df2>>
            \/ /\ Truthy(ic)
               /\ missing_cols(ic, df1, df2) = <<>>
               /\ df1' = fillna(set_index(df1, ic.cols))
               /\ df2' = fillna(set_index(df2, ic.cols))
               /\ pc' = "classify"
               /\ UNCHANGED <<out, it>>
            \/ /\ ~Truthy(ic)
               /\ df1' = fillna(df1)
               /\ df2' = fillna(df2)
               /\ pc' = "classify"
               /\ UNCHANGED <<out, it>>
  /\ UNCHANGED <<xls1, xls2, doc_prefix, index_map, common, only1, only2, sheet,
                 engine, diff, merged, writer, closed>>

\* lines 111-121: same shape, the cells are compared
CellDiff ==
  /\ pc = "classify"
  /\ SameShape(df1, df2)
  /\ engine' = "cell"
  /\ diff' = compare(df1, df2)
  /\ \/ /\ IsEmpty(compare(df1, df2))
        /\ out' = Append(out, Say("no differences (same shape)", sheet, <<>>))
        /\ pc' = "loop"
        /\ it' = it + 1
        /\ UNCHANGED <<writer, closed>>
     \/ /\ ~IsEmpty(compare(df1, df2))
        /\ writer' = Append(writer, [name |-> sheet \o SameSuffix,
                                     table |-> flat_diff(compare(df1, df2))])
        /\ out' = Append(out, Say("wrote sheet", sheet, sheet \o SameSuffix))
        /\ pc' = "loop"
        /\ it' = it + 1
        /\ UNCHANGED closed
     \/ \* to_excel raises at line 120: nothing catches it, the report is closed
        /\ ~IsEmpty(compare(df1, df2))
        /\ pc' = "aborted"
        /\ closed' = TRUE
        /\ UNCHANGED <<writer, out, it>>
  /\ UNCHANGED <<xls1, xls2, doc_prefix, index_map, common, only1, only2, sheet,
                 df1, df2, index_col, merged>>

\* lines 122-145: another shape, the rows are aligned
RowAlign ==
  /\ pc = "classify"
  /\ ~SameShape(df1, df2)
  /\ engine' = "align"
  /\ LET df1r == reset_index(df1)
         df2r == reset_index(df2)
         res == labelled(unmatched(merge(df1r, df2r, on_keys(index_col, df1r, df2r))))
     IN  \/ \* pd.merge raises: caught at line 130
            /\ merged' = NoMerge
            /\ out' = Append(out, Say("merge error", sheet, <<>>))
            /\ pc' = "loop"
            /\ it' = it + 1
            /\ UNCHANGED <<writer, closed>>
         \/ /\ res.rows = <<>>
            /\ merged' = res
            /\ out' = Append(out, Say("no differences (shape mismatch)", sheet, <<>>))
            /\ pc' = "loop"
            /\ it' = it + 1
            /\ UNCHANGED <<writer, closed>>
         \/ /\ res.rows # <<>>
            /\ merged' = res
            /\ writer' = Append(writer, [name |-> sheet \o DiffSuffix, table |-> res])
            /\ out' = Append(out, Say("wrote sheet", sheet, sheet \o DiffSuffix))
            /\ pc' = "loop"
            /\ it' = it + 1
            /\ UNCHANGED closed
         \/ \* to_excel raises at line 144: nothing catches it, the report is closed
            /\ res.rows # <<>>
            /\ merged' = res
            /\ pc' = "aborted"
            /\ closed' = TRUE
            /\ UNCHANGED <<writer, out, it>>
  /\ UNCHANGED <<xls1, xls2, doc_prefix, index_map, common, only1, only2, sheet,
                 df1, df2, index_col, diff>>

\* lines 146-148: the report is persisted
Finish ==
  /\ pc = "loop"
  /\ it > Len(common)
  /\ closed' = TRUE
  /\ out' = Append(out, Say("Done", <<>>, <<>>))
  /\ pc' = "done"
  /\ UNCHANGED <<xls1, xls2, doc_prefix, index_map, common, only1, only2, it,
                 sheet, df1, df2, index_col, engine, diff, merged, writer>>

Next == Reconcile \/ ReadSheet \/ ResolveKey \/ CellDiff \/ RowAlign \/ Finish

-----------------------------------------------------------------------------
(* The inputs *)

ColSeqs == {<<>>, <<"id">>, <<"q">>, <<"id", "q">>, <<"q", "id">>}

Dom(c) == IF c = "id" THEN {1, 2} ELSE {NaN, 1}

RowsOf(cs) == {r \in [1..Len(cs) -> {NaN, 1, 2}] : \A j \in 1..Len(cs) : r[j] \in Dom(cs[j])}

\* every table of at most MaxRows rows over the columns id and q
Tables ==
  UNION {{[columns |-> cs, data |-> d] :
            d \in UNION {[1..n -> RowsOf(cs)] :
                           n \in 0..(IF cs = <<>> THEN 0 ELSE MaxRows)}} :
         cs \in ColSeqs}

\* three tables: one row; the same with a placeholder column, a missing cell
\* and a second row; and the first with another value of q
RunTables ==
  {[columns |-> <<"id", "q">>, data |-> << <<1, 1>> >>],
   [columns |-> <<"id", "Unnamed: 0", "q">>, data |-> << <<1, NaN, 1>>, <<2, NaN, NaN>> >>],
   [columns |-> <<"id", "q">>, data |-> << <<1, NaN>> >>]}

SheetNames == {<<"A">>, <<"D", "a">>, <<"a">>}

ConfigNames == {<<"a">>, <<"A">>, <<"d", "a">>, <<"D", "A">>}

KeySpecs == {Str("id"), List(<<"id", "q">>), List(<<"q">>)}

\* every configuration of at most MaxEntries entries
Configs ==
  UNION {{d \in [1..n -> ConfigNames \X KeySpecs] :
            \A j, k \in 1..n : j # k => d[j][1] # d[k][1]} : n \in 0..MaxEntries}

RunConfigs == {<<>>, << << <<"a">>, Str("id") >> >>}

InitLocals ==
  /\ pc = "start"
  /\ common = <<>>
  /\ only1 = <<>>
  /\ only2 = <<>>
  /\ it = 0
  /\ sheet = <<>>
  /\ df1 = NoFrame
  /\ df2 = NoFrame
  /\ index_col = None
  /\ engine = "none"
  /\ diff = NoFrame
  /\ merged = NoMerge
  /\ writer = <<>>
  /\ closed = FALSE
  /\ out = <<>>

\* a run over any two workbooks of the sheets A, Da and a
Init ==
  /\ \E S1, S2 \in SUBSET SheetNames :
       /\ xls1 \in [S1 -> RunTables]
       /\ xls2 \in [S2 -> RunTables]
  /\ doc_prefix \in {<<>>, <<"D">>}
  /\ \E data \in RunConfigs : index_map = load_index_map(data)
  /\ InitLocals

Spec == Init /\ [][Next]_vars

\* one sheet, a, holding any two tables, with or without a key
InitTables ==
  /\ xls1 \in [{<<"a">>} -> Tables]
  /\ xls2 \in [{<<"a">>} -> Tables]
  /\ doc_prefix = <<>>
  /\ \E data \in {<<>>, << << <<"a">>, Str("id") >> >>,
                  << << <<"a">>, List(<<"id", "q">>) >> >>} :
       index_map = load_index_map(data)
  /\ InitLocals

SpecTables == InitTables /\ [][Next]_vars

\* one sheet of any name under any configuration
InitKeys ==
  /\ \E s \in SheetNames :
       /\ xls1 \in [{s} -> RunTables]
       /\ xls2 \in [{s} -> RunTables]
  /\ doc_prefix = <<>>
  /\ \E data \in Configs : index_map = load_index_map(data)
  /\ InitLocals

SpecKeys == InitKeys /\ [][Next]_vars

-----------------------------------------------------------------------------
(* Properties.  What follows states the claims; it models no code.          *)

LastMsg == IF out = <<>> THEN "" ELSE out[Len(out)].msg

\* the engine ran on the current sheet and the sheet is finished
Classified == engine # "none"

\* the outer merge of the current sheet returned a result
Aligned == engine = "align" /\ merged # NoMerge

Unique(s) == \A j, k \in 1..Len(s) : s[j] = s[k] => j = k

RemoveAt(s, p) == SubSeq(s, 1, p - 1) \o SubSeq(s, p + 1, Len(s))

SharedCols(a, b) == Range(a.columns) \cap Range(b.columns)

Cell(df, r, c) == df.data[r][Pos(df.columns, c)]

ExtraRow(t1, t2) ==
  /\ t1.columns = t2.columns
  /\ \E p \in 1..Len(t2.data) : RemoveAt(t2.data, p) = t1.data

\* C2 as stated: two tables identical but for one extra row in the second,
\* wherever it sits and with or without a key, give exactly one row, and it
\* is labelled "<name2> only".
C2_OneExtraRow ==
  (Aligned /\ ExtraRow(xls1[sheet], xls2[sheet])) =>
    /\ Len(merged.rows) = 1
    /\ merged.rows[1].Different = <<name2, "only">>

\* C3 as stated: a run ends only by persisting the report after every common
\* sheet was taken up; no failure on one sheet ends it.
C3_NeverAborts ==
  pc \in {"done", "aborted"} =>
    /\ pc = "done"
    /\ \A k \in 1..Len(common) :
         \E j \in 1..Len(out) : out[j] = Say("Comparing", common[k], <<>>)

\* the two normalised tables differ: in their column sets, in a row identity
\* that only one of them has, or in a cell of a row both have
HasDifference(a, b) ==
  \/ Range(a.columns) # Range(b.columns)
  \/ Range(a.index) # Range(b.index)
  \/ \E r1 \in 1..Len(a.index), r2 \in 1..Len(b.index) :
       /\ a.index[r1] = b.index[r2]
       /\ \E c \in SharedCols(a, b) : Cell(a, r1, c) # Cell(b, r2, c)

\* C4 as stated: a sheet that was compared without an error (its row
\* identities being unique in each table) has a section exactly when its two
\* normalised tables differ.
C4_SectionIffDifference ==
  (/\ pc = "loop"
   /\ Classified
   /\ LastMsg # "merge error"
   /\ Unique(df1.index) /\ Unique(df2.index)) =>
    (LastMsg = "wrote sheet" <=> HasDifference(df1, df2))

\* no row of the one table agrees with a row of the other on the columns the
\* tables share
NoRowInCommon(a, b) ==
  \A r1 \in 1..Len(a.index), r2 \in 1..Len(b.index) :
    \E c \in SharedCols(a, b) : Cell(a, r1, c) # Cell(b, r2, c)

\* every row of both tables is in the result of the merge, under the label
\* of its table, and nothing else is
AllRowsReturned ==
  LET l == reset_index(df1)
      r == reset_index(df2)
  IN  /\ Len(merged.rows) = Len(df1.index) + Len(df2.index)
      /\ \A i \in 1..Len(l.data) :
           \E k \in 1..Len(merged.rows) :
             /\ merged.rows[k].Different = <<name1, "only">>
             /\ \A c \in Range(l.columns) :
                  merged.rows[k].data[Pos(merged.columns, <<c>>)] = Cell(l, i, c)
      /\ \A j \in 1..Len(r.data) :
           \E k \in 1..Len(merged.rows) :
             /\ merged.rows[k].Different = <<name2, "only">>
             /\ \A c \in Range(r.columns) :
                  merged.rows[k].data[Pos(merged.columns, <<c>>)] = Cell(r, j, c)

RowDiffers(r) == \E j \in 1..Len(df1.columns) : df1.data[r][j] # df2.data[r][j]

\* the cell of row k of the diff under column c holds a pair of values
Populated(k, c) ==
  /\ <<c, name1>> \in Range(diff.columns)
  /\ \/ Cell(diff, k, <<c, name1>>) # NaN
     \/ Cell(diff, k, <<c, name2>>) # NaN

\* row k of the diff is row r of the tables: its identity, and under each
\* column a pair exactly where the tables differ, the pair being their values
RowMatches(k, r) ==
  /\ diff.index[k] = df1.index[r]
  /\ RowDiffers(r)
  /\ \A j \in 1..Len(df1.columns) :
       /\ Populated(k, df1.columns[j]) <=> df1.data[r][j] # df2.data[r][j]
       /\ Populated(k, df1.columns[j]) =>
            /\ Cell(diff, k, <<df1.columns[j], name1>>) = df1.data[r][j]
            /\ Cell(diff, k, <<df1.columns[j], name2>>) = df2.data[r][j]

\* C6: the result of the Cell Diff Engine has one row per row with a
\* differing cell and no other; in each, exactly the columns that differ in
\* that row hold a pair, the values of the two tables; one differing cell
\* gives one row with one column.
C6_CellDiff ==
  engine = "cell" =>
    /\ Len(diff.index) = Cardinality({r \in 1..Len(df1.index) : RowDiffers(r)})
    /\ \A r \in 1..Len(df1.index) :
         RowDiffers(r) => \E k \in 1..Len(diff.index) : RowMatches(k, r)
    /\ \A k \in 1..Len(diff.index) :
         \E r \in 1..Len(df1.index) : RowMatches(k, r)
    /\ Cardinality({<<r, j>> \in (1..Len(df1.index)) \X (1..Len(df1.columns)) :
                      df1.data[r][j] # df2.data[r][j]}) = 1
         => Len(diff.index) = 1 /\ Len(diff.columns) = 2

\* two rows differ, each in another column: each row of the diff holds one
\* pair and one gap
C6_Witness ==
  /\ engine = "cell"
  /\ Len(diff.index) = 2
  /\ Len(diff.columns) = 4
  /\ \E c \in Range(df1.columns) : Populated(1, c) /\ ~Populated(2, c)
  /\ \E c \in Range(df1.columns) : Populated(2, c) /\ ~Populated(1, c)

\* C7: a table compared with itself is classified same-shape, the diff is
\* empty, the outer merge is not run and no section is written.
C7_SelfCompare ==
  (sheet # <<>> /\ xls1[sheet] = xls2[sheet]) =>
    /\ pc = "classify" => SameShape(df1, df2)
    /\ engine # "align"
    /\ merged = NoMerge
    /\ engine = "cell" => IsEmpty(diff)
    /\ (engine = "cell" /\ pc = "loop") => LastMsg = "no differences (same shape)"
    /\ \A k \in 1..Len(writer) : ~StartsWith(writer[k].name, sheet)

\* a table of two rows with a missing cell, compared with itself under a key
C7_Witness ==
  /\ sheet # <<>>
  /\ xls1[sheet] = xls2[sheet]
  /\ engine = "cell"
  /\ Truthy(index_col)
  /\ Len(df1.index) = 2
  /\ \E r \in 1..2 : \E j \in 1..Len(df1.columns) : df1.data[r][j] = Empty

\* the key of the current sheet has been resolved
Resolved ==
  \/ pc = "classify"
  \/ Classified
  \/ (pc = "loop" /\ LastMsg = "skip (missing index cols)")

ExactEntries == {j \in 1..Len(index_map._raw) : index_map._raw[j][1] = sheet}

CaseEntries ==
  {j \in 1..Len(index_map._raw) : Lower(index_map._raw[j][1]) = Lower(sheet)}

\* C8: the key of a sheet is the one configured under its exact name if
\* there is one, otherwise one configured under a name equal to it ignoring
\* case, otherwise none; without a configuration the rows keep their
\* positions as identities.
C8_KeyResolver ==
  Resolved =>
    /\ \A j \in ExactEntries : index_col = index_map._raw[j][2]
    /\ (ExactEntries = {} /\ CaseEntries # {}) =>
         \E j \in CaseEntries : index_col = index_map._raw[j][2]
    /\ CaseEntries = {} => index_col = None
    /\ (index_map._raw = <<>> /\ pc = "classify") =>
         df1.names = <<>> /\ df2.names = <<>>

\* the exact name and another spelling are both configured, with different
\* keys
C8_Witness ==
  /\ Resolved
  /\ ExactEntries # {}
  /\ \E j \in CaseEntries : j \notin ExactEntries /\ index_map._raw[j][2] # index_col
  /\ df1.names = index_col.cols

\* a configuration key in another case resolves
C8_WitnessCase ==
  /\ Resolved
  /\ ExactEntries = {}
  /\ CaseEntries # {}
  /\ index_col # None

\* the sheets of both workbooks that do not start with the prefix
Allowed ==
  {s \in DOMAIN xls1 :
     /\ s \in DOMAIN xls2
     /\ doc_prefix = <<>> \/ ~StartsWith(s, doc_prefix)}

Taken == SelectSeq(out, LAMBDA e : e.msg = "Comparing")

Wrote == SelectSeq(out, LAMBDA e : e.msg = "wrote sheet")

\* C9: the sheets compared are the sheets of both workbooks that do not
\* start with the prefix; no other sheet is taken up or gets a section.
C9_ComparedSheets ==
  pc # "start" =>
    /\ Range(common) = Allowed
    /\ \A k \in 1..Len(Taken) : Taken[k].sheet \in Allowed
    /\ Len(writer) = Len(Wrote)
    /\ \A k \in 1..Len(Wrote) :
         /\ Wrote[k].sheet \in Allowed
         /\ writer[k].name = Wrote[k].arg
         /\ StartsWith(writer[k].name, Wrote[k].sheet)
    /\ pc = "done" => {Taken[k].sheet : k \in 1..Len(Taken)} = Allowed

\* a run that ends with a section, a sheet of both workbooks left out for
\* its prefix and a sheet of one workbook only
C9_Witness ==
  /\ pc = "done"
  /\ writer # <<>>
  /\ doc_prefix # <<>>
  /\ \E s \in DOMAIN xls1 \cap DOMAIN xls2 : StartsWith(s, doc_prefix)
  /\ \E s \in DOMAIN xls1 : s \notin DOMAIN xls2 /\ ~StartsWith(s, doc_prefix)

\* C10: the sheets are taken up one at a time in ascending order of their
\* names; each gets at most one section, <sheet>_same from the Cell Diff
\* Engine and <sheet>_diff from the Row Alignment Engine; the sections are
\* in the order of their sheets.
C10_Order ==
  /\ \A j, k \in 1..Len(Taken) : j < k => StrLess(Taken[j].sheet, Taken[k].sheet)
  /\ \A j, k \in 1..Len(Wrote) : j < k => StrLess(Wrote[j].sheet, Wrote[k].sheet)
  /\ Len(writer) = Len(Wrote)
  /\ \A k \in 1..Len(Wrote) :
       /\ writer[k].name = Wrote[k].arg
       /\ Wrote[k].arg \in {Wrote[k].sheet \o SameSuffix, Wrote[k].sheet \o DiffSuffix}
  /\ (pc = "loop" /\ LastMsg = "wrote sheet") =>
       /\ out[Len(out)].sheet = sheet
       /\ engine = "cell" => out[Len(out)].arg = sheet \o SameSuffix
       /\ engine = "align" => out[Len(out)].arg = sheet \o DiffSuffix
       /\ engine \in {"cell", "align"}
  /\ pc \in {"resolve", "classify"} => Taken # <<>> /\ Taken[Len(Taken)].sheet = sheet

\* three sheets taken up, a section of each kind
C10_Witness ==
  /\ pc = "done"
  /\ Len(Taken) = 3
  /\ \E j, k \in 1..Len(writer) :
       /\ writer[j].name = Wrote[j].sheet \o SameSuffix
       /\ writer[k].name = Wrote[k].sheet \o DiffSuffix

=============================================================================
